---- MODULE Spec2Model ----
(***************************************************************************)
(* Model of the Timing API client (src/src/timing.ts): the Reference       *)
(* Normalizer, the auth/response middleware, the openapi-fetch transport   *)
(* the client is built on, and the operations of the API surface.          *)
(*                                                                         *)
(* A JavaScript string is a sequence of one-character strings, so that     *)
(* split('/') and [0] are computed and not assumed.  Every JavaScript      *)
(* value is a record tagged with its type in field t.                      *)
(***************************************************************************)
EXTENDS Integers, Sequences, FiniteSets, TLC

\* ------------------------------------------------------------------ bounds
\* Longest string handed to entryIDFromReference by a direct call.
MaxLen == 4
\* Largest numeric identifier handed to the client.
MaxNum == 12

\* ------------------------------------------------------ JavaScript values
Alphabet == {"/", "e", "4", "2"}

Undefined == [t |-> "undefined"]
Str(s) == [t |-> "string", s |-> s]
Num(n) == [t |-> "number", n |-> n]
Bool(b) == [t |-> "boolean", b |-> b]
Arr(items) == [t |-> "array", items |-> items]
\* An entity of the remote API (project, time entry): a JSON object.
Entity(self, title) == [t |-> "object", self |-> self, title |-> title]

\* JavaScript truthiness, as used by `if (x)` and `&&`.
Truthy(v) ==
    CASE v.t = "undefined" -> FALSE
      [] v.t = "string" -> v.s # << >>
      [] v.t = "number" -> v.n # 0
      [] v.t = "boolean" -> v.b
      [] OTHER -> TRUE

\* Completions of a call: a returned value or a raised error.
Return(v) == [kind |-> "return", value |-> v]
Throw(e) == [kind |-> "throw", error |-> e]
NoResult == [kind |-> "none"]

TypeError(msg) == [name |-> "TypeError", message |-> msg]
SyntaxError(msg) == [name |-> "SyntaxError", message |-> msg]
\* class TimingError extends Error { status; body }
TimingError(message, status, body) ==
    [name |-> "TimingError", message |-> message, status |-> status, body |-> body]

\* --------------------------------------------------------------- strings
DigitChars == <<"0", "1", "2", "3", "4", "5", "6", "7", "8", "9">>

\* Number.prototype.toString() of a non-negative integer.
RECURSIVE NumToString(_)
NumToString(n) ==
    IF n < 10 THEN <<DigitChars[n + 1]>>
    ELSE NumToString(n \div 10) \o <<DigitChars[(n % 10) + 1]>>

\* reference.toString() of a string or a number.
toString(v) == IF v.t = "number" THEN NumToString(v.n) ELSE v.s

\* String.prototype.split('/'): the segments between the separators.
RECURSIVE Split(_)
Split(s) ==
    IF \A i \in 1..Len(s) : s[i] # "/" THEN <<s>>
    ELSE LET i == CHOOSE k \in 1..Len(s) :
                      s[k] = "/" /\ \A j \in 1..(k - 1) : s[j] # "/"
         IN <<SubSeq(s, 1, i - 1)>> \o Split(SubSeq(s, i + 1, Len(s)))

\* Variant: `.at(0)`, the first segment instead of the last.
AtFirst(a) == IF Len(a) = 0 THEN Undefined ELSE Str(a[1])

\* Array.prototype.at(-1): the last element, undefined for an empty array.
AtLast(a) == IF Len(a) = 0 THEN Undefined ELSE Str(a[Len(a)])

\* static entryIDFromReference(reference): toString() of undefined raises.
entryIDFromReference(reference) ==
    IF reference.t = "undefined"
    THEN Throw(TypeError("Cannot read properties of undefined (reading 'toString')"))
    ELSE Return(AtLast(Split(toString(reference))))

\* Variant: `return +!!bool`, which turns an unspecified flag into 0.
booleanToIntCoercing(bool) ==
    Num(IF bool.t # "undefined" /\ bool.b THEN 1 ELSE 0)

\* function booleanToInt(bool)
booleanToInt(bool) ==
    IF bool.t = "undefined" THEN Undefined
    ELSE Num(IF bool.b THEN 1 ELSE 0)

\* ------------------------------------------------------------- responses
\* The status codes the backend answers with.
Statuses == {200, 201, 204, 401, 404, 500}

\* A decoded JSON document: the envelope {data, links} of a success answer
\* or the {message} body of an error answer; {} has every field undefined.
Json(data, links, message) ==
    [t |-> "object", data |-> data, links |-> links, message |-> message]
EmptyObject == Json(Undefined, Undefined, Undefined)
\* The links object of an envelope, with its 'time-entries' member.
Links(timeEntries) == [t |-> "object", time_entries |-> timeEntries]

\* A response body on the wire: no content, text that is not JSON, or JSON.
EmptyBody == [kind |-> "empty"]
TextBody == [kind |-> "text"]
JsonBody(value) == [kind |-> "json", value |-> value]

\* The Response object handed to the middleware and to the operation.
Response(status, body, redirected, location) ==
    [kind |-> "response", status |-> status, body |-> body,
     redirected |-> redirected, headers |-> [location |-> location],
     bodyUsed |-> FALSE]
\* No response yet, and a fetch() that rejected (network failure).
Pending == [kind |-> "pending"]
NetworkError == [kind |-> "networkError"]

\* Response.ok
Ok(response) == response.status >= 200 /\ response.status <= 299

\* await response.json(): a body can be read once, and must be JSON.
ResponseJson(response) ==
    IF response.bodyUsed
    THEN Throw(TypeError("Body is unusable: Body has already been read"))
    ELSE IF response.body.kind = "json" THEN Return(response.body.value)
    ELSE Throw(SyntaxError("Unexpected token in JSON"))

\* ------------------------------------------------------------ middleware
\* Variant: `headers.append`-like, a value already on the request is kept.
onRequestKeeping(request, apiKey) ==
    IF request.headers.Authorization = Undefined
    THEN [request EXCEPT !.headers = [Authorization |-> <<"Bearer", apiKey>>]]
    ELSE request

\* authMiddleware.onRequest: sets the Authorization header of the request.
onRequest(request, apiKey) ==
    [request EXCEPT !.headers = [Authorization |-> <<"Bearer", apiKey>>]]

\* Variant: the generic message whatever the status.
HookMessageGeneric(status) == "Request unsuccessful."

\* The message argument of the TimingError the hook constructs.
HookMessage(status) ==
    IF status = 401 THEN "Request not authorized." ELSE "Request unsuccessful."

\* authMiddleware.onResponse: raises for a response that is not ok.  The
\* arguments of `new TimingError(...)` are evaluated first, so a body that
\* response.json() cannot parse raises the parse error instead.
onResponse(response) ==
    IF ~Ok(response)
    THEN LET body == ResponseJson(response)
         IN IF body.kind = "throw" THEN body
            ELSE Throw(TimingError(HookMessage(response.status),
                                   response.status, body.value))
    ELSE Return(Undefined)

\* ------------------------------------------------------------- transport
\* A request as an operation hands it to this._client.GET/POST/PUT/DELETE.
Request(method, path, pathParam, query, body) ==
    [method |-> method, path |-> path, pathParam |-> pathParam,
     query |-> query, body |-> body, headers |-> [Authorization |-> Undefined]]
NoRequest == [method |-> "none"]

\* What `await this._client.METHOD(path, init)` settles to for a response:
\* the client built by createClient() runs fetch, then the onResponse hook,
\* then decodes the body ({} for 204 or an empty body, JSON otherwise).
coreFetch(response) ==
    IF response.kind = "pending" THEN NoResult
    ELSE IF response.kind = "networkError" THEN Throw(TypeError("fetch failed"))
    ELSE LET hook == onResponse(response)
         IN IF hook.kind = "throw" THEN hook
            ELSE IF response.status = 204 \/ response.body.kind = "empty"
            THEN Return([data |-> IF Ok(response) THEN EmptyObject ELSE Undefined,
                         error |-> IF Ok(response) THEN Undefined ELSE EmptyObject,
                         response |-> response])
            ELSE LET parsed == ResponseJson(response)
                     used == [response EXCEPT !.bodyUsed = TRUE]
                 IN IF Ok(response)
                    THEN IF parsed.kind = "throw" THEN parsed
                         ELSE Return([data |-> parsed.value, error |-> Undefined,
                                      response |-> used])
                    ELSE Return([data |-> Undefined,
                                 error |-> IF parsed.kind = "throw"
                                           THEN Str(<< >>) ELSE parsed.value,
                                 response |-> used])

\* The outcome of one operation: the request it sent (NoRequest when it
\* raised before sending) and how the call settles for the given response.
Exchange(request, result) == [request |-> request, result |-> result]

\* `return data.data` on the settled transport result f.
DataOf(f) == f.value.data.data

\* `data.data ?? []`
DataOrEmpty(f) ==
    IF DataOf(f).t = "undefined" THEN Arr(<< >>) ELSE DataOf(f)

\* The i-th actual argument of a call, undefined when it was not passed.
Arg(args, i) == IF Len(args) >= i THEN args[i] ELSE Undefined

\* ------------------------------------------------------------ operations
\* Each operation is given the arguments of the call and the response the
\* backend gives to its request (Pending while the call still awaits it).

\* Variant: `return data`, the envelope in place of its data field.
ReturnEnvelope(request, response) ==
    LET f == coreFetch(response)
    IN Exchange(request, IF f.kind # "return" THEN f ELSE Return(f.value.data))

\* `const { data } = await ...; return data.data;`
ReturnData(request, response) ==
    LET f == coreFetch(response)
    IN Exchange(request, IF f.kind # "return" THEN f ELSE Return(DataOf(f)))

\* An operation whose path parameter goes through entryIDFromReference and
\* that returns data.data.
ReturnDataById(method, path, id, body, response) ==
    LET ref == entryIDFromReference(id)
    IN IF ref.kind = "throw" THEN Exchange(NoRequest, ref)
       ELSE ReturnData(Request(method, path, ref.value, Undefined, body), response)

\* `await this._client.DELETE(...)` with nothing returned.
ReturnNothingById(path, id, response) ==
    LET ref == entryIDFromReference(id)
        f == coreFetch(response)
    IN IF ref.kind = "throw" THEN Exchange(NoRequest, ref)
       ELSE Exchange(Request("DELETE", path, ref.value, Undefined, Undefined),
                     IF f.kind # "return" THEN f ELSE Return(Undefined))

\* query: Params = {}
EmptyQuery ==
    [t |-> "object", title |-> Undefined, team_id |-> Undefined,
     hide_archived |-> Undefined]

listProjectsHierarchically(args, response) ==
    LET query == IF Arg(args, 1).t = "undefined" THEN EmptyObject ELSE Arg(args, 1)
        f == coreFetch(response)
    IN Exchange(Request("GET", "/api/v1/projects/hierarchy", Undefined, query, Undefined),
                IF f.kind # "return" THEN f ELSE Return(DataOrEmpty(f)))

listProjects(args, response) ==
    LET query == IF Arg(args, 1).t = "undefined" THEN EmptyQuery ELSE Arg(args, 1)
        team == entryIDFromReference(query.team_id)
        f == coreFetch(response)
    IN IF team.kind = "throw" THEN Exchange(NoRequest, team)
       ELSE Exchange(
                Request("GET", "/api/v1/projects", Undefined,
                        [t |-> "object", title |-> query.title,
                         team_id |-> team.value,
                         hide_archived |-> booleanToInt(query.hide_archived)],
                        Undefined),
                IF f.kind # "return" THEN f ELSE Return(DataOrEmpty(f)))

\* Variant: entriesParams built from self alone, the link not consulted.
EntriesParamsWithoutLink(data) ==
    IF data.data.t = "object" /\ Truthy(data.data.self)
    THEN Return([t |-> "object", projects |-> <<data.data.self>>])
    ELSE Return(Undefined)

\* The entriesParams of createProject, from the decoded envelope `data`:
\* `data.links?.['time-entries'] && data.data.self` reads self of data.data
\* only when the link is truthy, and raises when data.data is undefined.
EntriesParams(data) ==
    LET link == IF data.links.t = "undefined" THEN Undefined
                ELSE data.links.time_entries
        self == IF data.data.t = "object" THEN data.data.self ELSE Undefined
    IN IF Truthy(link) /\ data.data.t = "undefined"
       THEN Throw(TypeError("Cannot read properties of undefined (reading 'self')"))
       ELSE IF Truthy(link) /\ Truthy(self)
       THEN Return([t |-> "object", projects |-> <<self>>])
       ELSE Return(Undefined)

createProject(args, response) ==
    LET f == coreFetch(response)
        request == Request("POST", "/api/v1/projects", Undefined, Undefined, Arg(args, 1))
    IN IF f.kind # "return" THEN Exchange(request, f)
       ELSE LET entriesParams == EntriesParams(f.value.data)
            IN IF entriesParams.kind = "throw" THEN Exchange(request, entriesParams)
               ELSE Exchange(request,
                        Return([t |-> "object", data |-> DataOf(f),
                                entriesParams |-> entriesParams.value]))

showProject(args, response) ==
    ReturnDataById("GET", "/api/v1/projects/{project_id}", Arg(args, 1), Undefined, response)

updateProject(args, response) ==
    ReturnDataById("PUT", "/api/v1/projects/{project_id}", Arg(args, 1), Arg(args, 2), response)

\* Variant: the DELETE wrapped in a try/catch that drops the error.
deleteProjectIgnoringError(args, response) ==
    LET x == ReturnNothingById("/api/v1/projects/{project_id}", Arg(args, 1), response)
    IN Exchange(x.request,
                IF x.result.kind = "throw" THEN Return(Undefined) ELSE x.result)

deleteProject(args, response) ==
    ReturnNothingById("/api/v1/projects/{project_id}", Arg(args, 1), response)

generateReport(args, response) ==
    ReturnData(Request("GET", "/api/v1/report", Undefined, Arg(args, 1), Undefined), response)

listTeamMembers(args, response) ==
    ReturnDataById("GET", "/api/v1/teams/{team_id}/members", Arg(args, 1), Undefined, response)

listTeams(args, response) ==
    ReturnData(Request("GET", "/api/v1/teams", Undefined, Undefined, Undefined), response)

startTimer(args, response) ==
    ReturnData(Request("POST", "/api/v1/time-entries/start", Undefined, Undefined, Arg(args, 1)),
               response)

stopTimer(args, response) ==
    ReturnData(Request("PUT", "/api/v1/time-entries/stop", Undefined, Undefined, Undefined),
               response)

\* response.headers.get('location')?.[0]: the first character of the header
\* value, undefined when the value is the empty string.
FirstOfLocation(response) ==
    LET location == response.headers.location
    IN IF location.t = "undefined" \/ location.s = << >> THEN Undefined
       ELSE Str(<<location.s[1]>>)

\* Variant: `||` in place of `&&` in the redirect test.
showLatestTimeEntryEither(args, response) ==
    LET f == coreFetch(response)
        request == Request("GET", "/api/v1/time-entries/latest", Undefined, Undefined,
                           Undefined)
    IN IF f.kind # "return" THEN Exchange(request, f)
       ELSE IF f.value.response.redirected
               \/ f.value.response.headers.location.t # "undefined"
       THEN Exchange(request, entryIDFromReference(FirstOfLocation(f.value.response)))
       ELSE Exchange(request, Return(Undefined))

showLatestTimeEntry(args, response) ==
    LET f == coreFetch(response)
        request == Request("GET", "/api/v1/time-entries/latest", Undefined, Undefined, Undefined)
    IN IF f.kind # "return" THEN Exchange(request, f)
       ELSE IF f.value.response.redirected
               /\ f.value.response.headers.location.t # "undefined"
       THEN Exchange(request, entryIDFromReference(FirstOfLocation(f.value.response)))
       ELSE Exchange(request, Return(Undefined))

showRunningTimer(args, response) ==
    LET f == coreFetch(response)
        request == Request("GET", "/api/v1/time-entries/running", Undefined, Undefined, Undefined)
    IN IF f.kind # "return" THEN Exchange(request, f)
       ELSE IF Truthy(f.value.error) THEN Exchange(request, Return(f.value.error))
       ELSE Exchange(request, ResponseJson(f.value.response))

listTimeEntries(args, response) ==
    LET f == coreFetch(response)
    IN Exchange(Request("GET", "/api/v1/time-entries", Undefined, Arg(args, 1), Undefined),
                IF f.kind # "return" THEN f ELSE Return(f.value.data))

createTimeEntry(args, response) ==
    ReturnData(Request("POST", "/api/v1/time-entries", Undefined, Undefined, Arg(args, 1)),
               response)

\* Variant: the activity ID put in the path as given, not normalized.
showTimeEntryRaw(args, response) ==
    ReturnData(Request("GET", "/api/v1/time-entries/{activity_id}",
                       Str(toString(Arg(args, 1))), Undefined, Undefined),
               response)

showTimeEntry(args, response) ==
    ReturnDataById("GET", "/api/v1/time-entries/{activity_id}", Arg(args, 1), Undefined, response)

updateTimeEntry(args, response) ==
    ReturnDataById("PUT", "/api/v1/time-entries/{activity_id}", Arg(args, 1), Arg(args, 2),
                   response)

deleteTimeEntry(args, response) ==
    ReturnNothingById("/api/v1/time-entries/{activity_id}", Arg(args, 1), response)

\* A direct call of the static Timing.entryIDFromReference: no request.
entryIDFromReferenceCall(args, response) ==
    Exchange(NoRequest, entryIDFromReference(Arg(args, 1)))

\* The method of the client that a call names.
Run(name, args, response) ==
    CASE name = "listProjectsHierarchically" -> listProjectsHierarchically(args, response)
      [] name = "listProjects" -> listProjects(args, response)
      [] name = "createProject" -> createProject(args, response)
      [] name = "showProject" -> showProject(args, response)
      [] name = "updateProject" -> updateProject(args, response)
      [] name = "deleteProject" -> deleteProject(args, response)
      [] name = "generateReport" -> generateReport(args, response)
      [] name = "listTeamMembers" -> listTeamMembers(args, response)
      [] name = "listTeams" -> listTeams(args, response)
      [] name = "startTimer" -> startTimer(args, response)
      [] name = "stopTimer" -> stopTimer(args, response)
      [] name = "showLatestTimeEntry" -> showLatestTimeEntry(args, response)
      [] name = "showRunningTimer" -> showRunningTimer(args, response)
      [] name = "listTimeEntries" -> listTimeEntries(args, response)
      [] name = "createTimeEntry" -> createTimeEntry(args, response)
      [] name = "showTimeEntry" -> showTimeEntry(args, response)
      [] name = "updateTimeEntry" -> updateTimeEntry(args, response)
      [] name = "deleteTimeEntry" -> deleteTimeEntry(args, response)
      [] name = "entryIDFromReference" -> entryIDFromReferenceCall(args, response)

\* ---------------------------------------------------------------- inputs
\* Every string over Alphabet of length at most n.
RECURSIVE StringsUpTo(_)
StringsUpTo(n) ==
    IF n = 0 THEN {<< >>}
    ELSE LET shorter == StringsUpTo(n - 1)
         IN shorter \cup {Append(s, c) : s \in {x \in shorter : Len(x) = n - 1},
                                         c \in Alphabet}

\* The reference /e/42 and its bare identifier 42.
Ref42 == <<"/", "e", "/", "4", "2">>
Id42 == <<"4", "2">>

\* What a caller passes to the static normalizer.
References == {Str(s) : s \in StringsUpTo(MaxLen)} \cup {Num(n) : n \in 0..MaxNum}
             \cup {Str(Ref42)}
\* What a caller passes where an operation takes an ID or a reference.
IdArgs == {Str(Ref42), Str(Id42), Num(MaxNum)}
Titles == {Undefined, Str(<<"e">>)}
RequestBodies == {[t |-> "object", title |-> Str(<<"e">>)]}
ListProjectsQueries ==
    [t : {"object"}, title : Titles, team_id : {Undefined} \cup IdArgs,
     hide_archived : {Undefined, Bool(TRUE), Bool(FALSE)}]
OtherQueries == {Undefined, [t |-> "object", projects |-> <<Str(Ref42)>>]}

\* What the backend may answer.
DataValues ==
    {Undefined, Arr(<< >>), Arr(<<Entity(Str(Ref42), Str(<<"e">>))>>),
     Entity(Str(Ref42), Str(<<"e">>)), Entity(Str(<< >>), Str(<<"e">>)),
     Entity(Undefined, Undefined)}
LinkValues == {Undefined, Links(Undefined), Links(Str(<<"/", "e">>))}
Messages == {Undefined, Str(<<"e">>)}
JsonValues == {Json(d, l, m) : d \in DataValues, l \in LinkValues, m \in Messages}
ResponseBodies == {EmptyBody, TextBody} \cup {JsonBody(j) : j \in JsonValues}
Locations == {Undefined, Str(<< >>), Str(Ref42)}
\* A 204 answer has no content.
Responses ==
    {Response(st, b, rd, loc) :
        st \in Statuses, b \in ResponseBodies, rd \in BOOLEAN, loc \in Locations}
    \ {r \in {Response(204, b, rd, loc) :
                 b \in ResponseBodies, rd \in BOOLEAN, loc \in Locations} :
          r.body # EmptyBody}
ApiKeys == {"key1", "key2"}

\* ----------------------------------------------------------------- state
\* Invocations that may be in flight at once.
MaxCalls == 2
Invocations == 1..MaxCalls
\* An invocation that has not been made: the client holds nothing for it.
NotStarted ==
    [pc |-> "idle", op |-> "none", args |-> << >>, sent |-> 0,
     request |-> NoRequest, result |-> NoResult]

VARIABLES
    apiKey,      \* opts.apiKey, captured by the middleware at construction
    pc,          \* "idle", "awaiting" (request sent, no response yet), "done"
    op,          \* the operation called
    args,        \* its actual arguments
    request,     \* the request on the wire, NoRequest when none was sent
    response,    \* the response the transport received
    hook,        \* how authMiddleware.onResponse completed on that response
    result,      \* how the call settled: a returned value or a raised error
    store,       \* the time entries the backend holds
    created,     \* the entry createTimeEntry last returned to its caller
    calls        \* invocations in flight at once on the one client

vars == <<apiKey, pc, op, args, request, response, hook, result, store, created, calls>>
\* What no step of the client itself writes.
remote == <<store, created>>
\* The state of the one-call-at-a-time view of the client.
single == <<pc, op, args, request, response, hook, result>>

\* new Timing({ apiKey })
Init ==
    /\ apiKey \in ApiKeys
    /\ pc = "idle"
    /\ op = "none"
    /\ args = << >>
    /\ request = NoRequest
    /\ response = Pending
    /\ hook = NoResult
    /\ result = NoResult
    /\ store = {}
    /\ created = Undefined
    /\ calls = [i \in Invocations |-> NotStarted]

\* A call of operation `name` with arguments a, x being the operation run up
\* to its await: it sends its request through onRequest, or settles at once
\* when it raised before the request.
Call(name, a, x) ==
    /\ request' = IF x.request.method = "none" THEN NoRequest
                  ELSE onRequest(x.request, apiKey)
    /\ result' = x.result
    /\ pc' = IF x.result.kind = "none" THEN "awaiting" ELSE "done"
    /\ op' = name
    /\ args' = a
    /\ UNCHANGED <<apiKey, response, hook, remote, calls>>

CallListProjectsHierarchically ==
    /\ pc = "idle"
    /\ \E q \in OtherQueries :
        Call("listProjectsHierarchically", <<q>>, listProjectsHierarchically(<<q>>, Pending))
\* listProjects() and listProjects(query)
CallListProjects ==
    /\ pc = "idle"
    /\ \/ Call("listProjects", << >>, listProjects(<< >>, Pending))
       \/ \E q \in ListProjectsQueries :
            Call("listProjects", <<q>>, listProjects(<<q>>, Pending))
CallCreateProject ==
    /\ pc = "idle"
    /\ \E b \in RequestBodies :
        Call("createProject", <<b>>, createProject(<<b>>, Pending))
CallShowProject ==
    /\ pc = "idle"
    /\ \E id \in IdArgs :
        Call("showProject", <<id>>, showProject(<<id>>, Pending))
CallUpdateProject ==
    /\ pc = "idle"
    /\ \E id \in IdArgs, b \in RequestBodies :
        Call("updateProject", <<id, b>>, updateProject(<<id, b>>, Pending))
CallDeleteProject ==
    /\ pc = "idle"
    /\ \E id \in IdArgs :
        Call("deleteProject", <<id>>, deleteProject(<<id>>, Pending))
CallGenerateReport ==
    /\ pc = "idle"
    /\ \E q \in OtherQueries :
        Call("generateReport", <<q>>, generateReport(<<q>>, Pending))
CallListTeamMembers ==
    /\ pc = "idle"
    /\ \E id \in IdArgs :
        Call("listTeamMembers", <<id>>, listTeamMembers(<<id>>, Pending))
CallListTeams ==
    /\ pc = "idle"
    /\ Call("listTeams", << >>, listTeams(<< >>, Pending))
CallStartTimer ==
    /\ pc = "idle"
    /\ \E b \in RequestBodies :
        Call("startTimer", <<b>>, startTimer(<<b>>, Pending))
CallStopTimer ==
    /\ pc = "idle"
    /\ Call("stopTimer", << >>, stopTimer(<< >>, Pending))
CallShowLatestTimeEntry ==
    /\ pc = "idle"
    /\ Call("showLatestTimeEntry", << >>, showLatestTimeEntry(<< >>, Pending))
CallShowRunningTimer ==
    /\ pc = "idle"
    /\ Call("showRunningTimer", << >>, showRunningTimer(<< >>, Pending))
CallListTimeEntries ==
    /\ pc = "idle"
    /\ \E q \in OtherQueries :
        Call("listTimeEntries", <<q>>, listTimeEntries(<<q>>, Pending))
CallCreateTimeEntry ==
    /\ pc = "idle"
    /\ \E b \in RequestBodies :
        Call("createTimeEntry", <<b>>, createTimeEntry(<<b>>, Pending))
CallShowTimeEntry ==
    /\ pc = "idle"
    /\ \E id \in IdArgs :
        Call("showTimeEntry", <<id>>, showTimeEntry(<<id>>, Pending))
CallUpdateTimeEntry ==
    /\ pc = "idle"
    /\ \E id \in IdArgs, b \in RequestBodies :
        Call("updateTimeEntry", <<id, b>>, updateTimeEntry(<<id, b>>, Pending))
CallDeleteTimeEntry ==
    /\ pc = "idle"
    /\ \E id \in IdArgs :
        Call("deleteTimeEntry", <<id>>, deleteTimeEntry(<<id>>, Pending))
CallEntryIDFromReference ==
    /\ pc = "idle"
    /\ \E ref \in References :
        Call("entryIDFromReference", <<ref>>, entryIDFromReferenceCall(<<ref>>, Pending))

\* The backend answers: the transport runs the onResponse hook on the
\* response and the awaiting operation resumes with what the transport
\* settled to.
Respond ==
    /\ pc = "awaiting"
    /\ \E r \in Responses :
          /\ response' = r
          /\ hook' = onResponse(r)
          /\ result' = Run(op, args, r).result
    /\ pc' = "done"
    /\ UNCHANGED <<apiKey, op, args, request, remote, calls>>

\* fetch() rejects: no response, no hook, the rejection reaches the operation.
FetchFails ==
    /\ pc = "awaiting"
    /\ response' = NetworkError
    /\ result' = Run(op, args, NetworkError).result
    /\ pc' = "done"
    /\ UNCHANGED <<apiKey, op, args, request, hook, remote, calls>>

\* The caller has the outcome; the client holds nothing of the call.
Finish ==
    /\ pc = "done"
    /\ pc' = "idle"
    /\ op' = "none"
    /\ args' = << >>
    /\ request' = NoRequest
    /\ response' = Pending
    /\ hook' = NoResult
    /\ result' = NoResult
    /\ UNCHANGED <<apiKey, remote, calls>>

Next ==
    \/ CallListProjectsHierarchically
    \/ CallListProjects
    \/ CallCreateProject
    \/ CallShowProject
    \/ CallUpdateProject
    \/ CallDeleteProject
    \/ CallGenerateReport
    \/ CallListTeamMembers
    \/ CallListTeams
    \/ CallStartTimer
    \/ CallStopTimer
    \/ CallShowLatestTimeEntry
    \/ CallShowRunningTimer
    \/ CallListTimeEntries
    \/ CallCreateTimeEntry
    \/ CallShowTimeEntry
    \/ CallUpdateTimeEntry
    \/ CallDeleteTimeEntry
    \/ CallEntryIDFromReference
    \/ Respond
    \/ FetchFails
    \/ Finish

Spec == Init /\ [][Next]_vars


\* ------------------------------------------------- a backend with a store
\* The time-entry endpoints of the remote service, as the operations'
\* descriptions state them: a created entry is stored under a fresh ID and
\* shown, updated and deleted by the ID in the request path.
EntryIds == {Id42, <<"1", "2">>}
ProjectRef == Str(<<"/", "e", "/", "2">>)
\* What a caller passes to createTimeEntry: title and project, not both empty.
TimeEntryBodies ==
    {[t |-> "object", title |-> ti, project |-> pr] :
        ti \in {Undefined, Str(<<"e">>), Str(<<"4">>)},
        pr \in {Undefined, ProjectRef}}
    \ {[t |-> "object", title |-> Undefined, project |-> Undefined]}
\* A stored time entry, identified by its self reference /e/<id>.
TimeEntry(id, title, project) ==
    [t |-> "object", self |-> Str(<<"/", "e", "/">> \o id), title |-> title,
     project |-> project]
\* The entry the path /api/v1/time-entries/<id> names, if any.
Stored(id) == {e \in store : e.self = Str(<<"/", "e", "/">> \o id.s)}
NotFound == Response(404, JsonBody(Json(Undefined, Undefined, Str(<<"e">>))), FALSE, Undefined)
Full == Response(500, JsonBody(Json(Undefined, Undefined, Str(<<"e">>))), FALSE, Undefined)
Found(status, entry) ==
    Response(status, JsonBody(Json(entry, Undefined, Undefined)), FALSE, Undefined)

\* The awaiting operation resumes with the backend's response r.
Answer(r) ==
    /\ response' = r
    /\ hook' = onResponse(r)
    /\ result' = Run(op, args, r).result
    /\ pc' = "done"
    /\ UNCHANGED <<apiKey, op, args, request, calls>>

CallCreateTimeEntryStored ==
    /\ pc = "idle"
    /\ \E b \in TimeEntryBodies :
        Call("createTimeEntry", <<b>>, createTimeEntry(<<b>>, Pending))

\* POST /api/v1/time-entries: the entry is stored under an unused ID and
\* returned; the caller of createTimeEntry keeps what the call returned.
BackendCreate ==
    /\ pc = "awaiting"
    /\ request.method = "POST" /\ request.path = "/api/v1/time-entries"
    /\ \E id \in EntryIds :
          /\ Stored(Str(id)) = {}
          /\ LET entry == TimeEntry(id, request.body.title, request.body.project)
                 r == Found(201, entry)
                 settled == createTimeEntry(args, r).result
             IN /\ store' = store \cup {entry}
                /\ created' = IF settled.kind = "return" THEN settled.value
                              ELSE created
                /\ Answer(r)

\* POST /api/v1/time-entries refused: every ID is in use.
BackendFull ==
    /\ pc = "awaiting"
    /\ request.method = "POST" /\ request.path = "/api/v1/time-entries"
    /\ \A id \in EntryIds : Stored(Str(id)) # {}
    /\ Answer(Full)
    /\ UNCHANGED remote

\* GET /api/v1/time-entries/{activity_id}
BackendShow ==
    /\ pc = "awaiting"
    /\ request.method = "GET" /\ request.path = "/api/v1/time-entries/{activity_id}"
    /\ \/ \E e \in Stored(request.pathParam) : Answer(Found(200, e))
       \/ Stored(request.pathParam) = {} /\ Answer(NotFound)
    /\ UNCHANGED remote

\* PUT /api/v1/time-entries/{activity_id}: the fields given are updated.
BackendUpdate ==
    /\ pc = "awaiting"
    /\ request.method = "PUT" /\ request.path = "/api/v1/time-entries/{activity_id}"
    /\ \/ \E e \in Stored(request.pathParam) :
            LET updated == [e EXCEPT !.title = request.body.title]
            IN /\ store' = (store \ {e}) \cup {updated}
               /\ Answer(Found(200, updated))
       \/ Stored(request.pathParam) = {} /\ Answer(NotFound) /\ store' = store
    /\ UNCHANGED created

\* DELETE /api/v1/time-entries/{activity_id}
BackendDelete ==
    /\ pc = "awaiting"
    /\ request.method = "DELETE" /\ request.path = "/api/v1/time-entries/{activity_id}"
    /\ \/ \E e \in Stored(request.pathParam) :
            /\ store' = store \ {e}
            /\ Answer(Response(204, EmptyBody, FALSE, Undefined))
       \/ Stored(request.pathParam) = {} /\ Answer(NotFound) /\ store' = store
    /\ UNCHANGED created

NextRoundTrip ==
    \/ CallCreateTimeEntryStored
    \/ CallShowTimeEntry
    \/ CallUpdateTimeEntry
    \/ CallDeleteTimeEntry
    \/ BackendCreate
    \/ BackendFull
    \/ BackendShow
    \/ BackendUpdate
    \/ BackendDelete
    \/ Finish

\* The client against a backend that stores time entries.
SpecRoundTrip == Init /\ [][NextRoundTrip]_vars


\* ------------------------------------------------- concurrent invocations
\* Each async method runs on its own: its locals are its own, the client's
\* fields (_client, its middleware, the apiKey the middleware closed over)
\* are only read.
ConcurrentQueries ==
    {Undefined} \cup
    {q \in ListProjectsQueries : q.title = Undefined /\ q.hide_archived = Undefined}
ConcurrentResponses ==
    {Response(200, JsonBody(Json(Entity(Str(Ref42), Str(<<"e">>)), Undefined, Undefined)),
              FALSE, Undefined),
     Response(401, JsonBody(Json(Undefined, Undefined, Str(<<"e">>))), FALSE, Undefined),
     Response(500, TextBody, FALSE, Undefined)}

\* Invocation i runs operation `name` up to its await (x): the one
\* client.GET/POST/PUT of its body hands one request to fetch, unless the
\* operation raised while building it.
Start(i, name, a, x) ==
    /\ calls' = [calls EXCEPT ![i] =
          [pc |-> IF x.result.kind = "none" THEN "awaiting" ELSE "done",
           op |-> name,
           args |-> a,
           sent |-> IF x.request.method = "none" THEN 0 ELSE 1,
           request |-> IF x.request.method = "none" THEN NoRequest
                       ELSE onRequest(x.request, apiKey),
           result |-> x.result]]
    /\ UNCHANGED <<apiKey, single, remote>>

StartListProjects ==
    \E i \in Invocations :
        /\ calls[i].pc = "idle"
        /\ \E q \in ConcurrentQueries :
              LET a == IF q = Undefined THEN << >> ELSE <<q>>
              IN Start(i, "listProjects", a, listProjects(a, Pending))
StartStartTimer ==
    \E i \in Invocations :
        /\ calls[i].pc = "idle"
        /\ \E b \in RequestBodies :
              Start(i, "startTimer", <<b>>, startTimer(<<b>>, Pending))
StartStopTimer ==
    \E i \in Invocations :
        /\ calls[i].pc = "idle"
        /\ Start(i, "stopTimer", << >>, stopTimer(<< >>, Pending))
StartShowTimeEntry ==
    \E i \in Invocations :
        /\ calls[i].pc = "idle"
        /\ \E id \in IdArgs :
              Start(i, "showTimeEntry", <<id>>, showTimeEntry(<<id>>, Pending))

\* The response to invocation i's request arrives: the hook and the rest of
\* the method run, and the method returns or raises; nothing is sent again.
Receive ==
    \E i \in Invocations, r \in ConcurrentResponses :
        /\ calls[i].pc = "awaiting"
        /\ calls' = [calls EXCEPT ![i].pc = "done",
                                  ![i].result = Run(calls[i].op, calls[i].args, r).result]
        /\ UNCHANGED <<apiKey, single, remote>>

\* fetch() rejects for invocation i.
ReceiveFailure ==
    \E i \in Invocations :
        /\ calls[i].pc = "awaiting"
        /\ calls' = [calls EXCEPT ![i].pc = "done",
                                  ![i].result = Run(calls[i].op, calls[i].args,
                                                    NetworkError).result]
        /\ UNCHANGED <<apiKey, single, remote>>

NextConcurrent ==
    \/ StartListProjects
    \/ StartStartTimer
    \/ StartStopTimer
    \/ StartShowTimeEntry
    \/ Receive
    \/ ReceiveFailure

\* Several invocations in flight on the same client, in any interleaving.
SpecConcurrent == Init /\ [][NextConcurrent]_vars

\* ---------------------------------------------------------------- claims
\* The current call is of operation `name` and has settled.
Settled(name) == pc = "done" /\ op = name
\* The transport received a response to the current call's request.
Answered == response.kind = "response"

\* s is a reference "/kind/<id>": kind and id non-empty, neither holding '/'.
IsReference(s) ==
    /\ Len(s) >= 4
    /\ s[1] = "/"
    /\ s[2] # "/"
    /\ s[Len(s)] # "/"
    /\ Cardinality({i \in 1..Len(s) : s[i] = "/"}) = 2
\* The <id> of the reference s.
IdOfReference(s) ==
    LET second == CHOOSE i \in 2..Len(s) : s[i] = "/"
    IN SubSeq(s, second + 1, Len(s))
NoSlash(s) == \A i \in 1..Len(s) : s[i] # "/"
\* The number a string of decimal digits denotes.
RECURSIVE DecimalValue(_)
DecimalValue(s) ==
    IF Len(s) = 0 THEN 0
    ELSE 10 * DecimalValue(SubSeq(s, 1, Len(s) - 1))
         + (CHOOSE d \in 0..9 : DigitChars[d + 1] = s[Len(s)])
\* s is the decimal string form of the number n.
IsDecimalOf(s, n) ==
    /\ Len(s) >= 1
    /\ \A i \in 1..Len(s) : \E d \in 0..9 : DigitChars[d + 1] = s[i]
    /\ Len(s) > 1 => s[1] # "0"
    /\ DecimalValue(s) = n
\* v is the bare ID of the reference or identifier given.
IsBareIdOf(v, given) ==
    /\ v.t = "string"
    /\ IF given.t = "number" THEN IsDecimalOf(v.s, given.n)
       ELSE IF IsReference(given.s) THEN v.s = IdOfReference(given.s)
       ELSE v.s = given.s

\* C1 (as claimed): when the backend answers showRunningTimer's request with
\* HTTP 404 and a JSON error body, the call returns that parsed body and
\* raises nothing.
C1_NotFoundReturnedAsData ==
    (Settled("showRunningTimer") /\ Answered /\ response.status = 404
        /\ response.body.kind = "json")
    => result = Return(response.body.value)

\* C2 (as claimed): for a redirected response whose location header is a
\* reference /kind/<id>, showLatestTimeEntry returns exactly the string <id>.
C2_LatestReturnsTrailingId ==
    (Settled("showLatestTimeEntry") /\ Answered /\ Ok(response)
        /\ response.body.kind = "json" /\ response.redirected
        /\ response.headers.location.t = "string"
        /\ IsReference(response.headers.location.s))
    => result = Return(Str(IdOfReference(response.headers.location.s)))

\* C3: for every response whose body parses as JSON, the post-response hook
\* raises nothing when the status is 2xx, and otherwise raises a TimingError
\* whose status is the response's status, whose body is the parsed body and
\* whose message is 'Request not authorized.' exactly for 401 and
\* 'Request unsuccessful.' for every other status.  For a 2xx response the
\* hook raises nothing whatever the body.
C3_HookRaisesTimingError ==
    (pc = "done" /\ Answered)
    => /\ Ok(response) => hook = Return(Undefined)
       /\ (~Ok(response) /\ response.body.kind = "json")
          => /\ hook.kind = "throw"
             /\ hook.error.name = "TimingError"
             /\ hook.error.status = response.status
             /\ hook.error.body = response.body.value
             /\ hook.error.message = IF response.status = 401
                                     THEN "Request not authorized."
                                     ELSE "Request unsuccessful."
C3_Witness ==
    /\ pc = "done" /\ Answered /\ response.status = 401
    /\ response.body.kind = "json"
    /\ hook.kind = "throw" /\ hook.error.message = "Request not authorized."

\* C4 (as claimed): listProjects called with no argument, or with a query
\* that omits team_id, sends a GET /api/v1/projects request; it does not
\* settle before the request is sent.
C4_ListProjectsWithoutTeamSends ==
    (op = "listProjects" /\ pc \in {"awaiting", "done"}
        /\ (args = << >> \/ args[1].team_id = Undefined))
    => /\ request.method = "GET"
       /\ request.path = "/api/v1/projects"

\* C5: entryIDFromReference returns exactly <id> for a reference /kind/<id>
\* with a non-empty <id> holding no '/', and the string form of a bare
\* identifier (string or number) holding no '/'; the caller's argument is
\* what it was.
C5_NormalizerReturnsId ==
    Settled("entryIDFromReference")
    => LET reference == args[1]
       IN /\ (reference.t = "string" /\ IsReference(reference.s))
             => result = Return(Str(IdOfReference(reference.s)))
          /\ (reference.t = "string" /\ NoSlash(reference.s))
             => result = Return(Str(reference.s))
          /\ reference.t = "number"
             => /\ result.kind = "return"
                /\ result.value.t = "string"
                /\ IsDecimalOf(result.value.s, reference.n)
C5_Witness ==
    /\ Settled("entryIDFromReference")
    /\ args = <<Str(Ref42)>>
    /\ result = Return(Str(Id42))

\* C6 (as claimed): when the backend answers showRunningTimer's request with
\* HTTP 200 and an envelope {data: <time entry>}, the call returns that time
\* entry.
C6_RunningTimerReturnsEntry ==
    (Settled("showRunningTimer") /\ Answered /\ response.status = 200
        /\ response.body.kind = "json" /\ response.body.value.data.t = "object")
    => result = Return(response.body.value.data)

\* C7 (as claimed): for every response that was not redirected or has no
\* location header, whatever its status, showLatestTimeEntry returns
\* undefined and raises nothing.
C7_LatestAbsentWhateverStatus ==
    (Settled("showLatestTimeEntry") /\ Answered /\ response.body.kind = "json"
        /\ (~response.redirected \/ response.headers.location.t = "undefined"))
    => result = Return(Undefined)

\* C7 (amended): for every response that was not redirected or has no
\* location header, showLatestTimeEntry returns undefined and raises nothing
\* when the status is 2xx and the transport can decode the body (JSON, or no
\* content); in every other case the call raises and returns no value.
C7_LatestAbsentOnSuccess ==
    (Settled("showLatestTimeEntry") /\ Answered
        /\ (~response.redirected \/ response.headers.location.t = "undefined"))
    => IF Ok(response) /\ response.body.kind \in {"json", "empty"}
       THEN result = Return(Undefined)
       ELSE result.kind = "throw"
C7_Witness ==
    /\ Settled("showLatestTimeEntry") /\ Answered
    /\ response.status = 200 /\ ~response.redirected
    /\ response.headers.location.t = "string"
    /\ result = Return(Undefined)

\* C8: every operation other than showRunningTimer whose request was
\* answered with a non-success status ends by raising what the
\* post-response hook raised, a TimingError with the response's status when
\* the body parses: no value is returned, the error is neither replaced nor
\* suppressed.
C8_ErrorPropagates ==
    (pc = "done" /\ Answered /\ ~Ok(response) /\ op # "showRunningTimer")
    => /\ result.kind = "throw"
       /\ result = hook
       /\ response.body.kind = "json"
          => /\ result.error.name = "TimingError"
             /\ result.error.status = response.status
C8_Witness ==
    /\ Settled("deleteProject") /\ Answered /\ response.status = 500
    /\ result.kind = "throw" /\ result.error.name = "TimingError"

\* C9: whenever createProject returns, the returned data is the envelope's
\* data field, and entriesParams is { projects: [self] } exactly when the
\* envelope's links hold a time-entries link and the created project's self
\* is populated, and is absent otherwise.
C9_CreateProjectEntriesParams ==
    (Settled("createProject") /\ Answered /\ result.kind = "return")
    => LET envelope == IF response.body.kind = "json" THEN response.body.value
                       ELSE EmptyObject
           hasLink == /\ envelope.links.t = "object"
                      /\ envelope.links.time_entries.t = "string"
                      /\ envelope.links.time_entries.s # << >>
           hasSelf == /\ envelope.data.t = "object"
                      /\ envelope.data.self.t = "string"
                      /\ envelope.data.self.s # << >>
       IN /\ result.value.data = envelope.data
          /\ result.value.entriesParams =
                IF hasLink /\ hasSelf
                THEN [t |-> "object", projects |-> <<envelope.data.self>>]
                ELSE Undefined
C9_Witness ==
    /\ Settled("createProject") /\ Answered /\ result.kind = "return"
    /\ result.value.entriesParams = [t |-> "object", projects |-> <<Str(Ref42)>>]

\* C10: a listProjects call whose query gives team_id sends a query whose
\* hide_archived is undefined when the caller did not specify it, 1 for true
\* and 0 for false, whose title is the caller's title unchanged, and whose
\* team_id is the normalized bare ID of the reference or ID given.
C10_ListProjectsQuery ==
    (op = "listProjects" /\ pc \in {"awaiting", "done"} /\ Len(args) = 1
        /\ args[1].team_id.t # "undefined")
    => /\ request.method = "GET"
       /\ request.path = "/api/v1/projects"
       /\ request.query.title = args[1].title
       /\ IsBareIdOf(request.query.team_id, args[1].team_id)
       /\ request.query.hide_archived =
             IF args[1].hide_archived.t = "undefined" THEN Undefined
             ELSE IF args[1].hide_archived.b THEN Num(1) ELSE Num(0)
C10_Witness ==
    /\ op = "listProjects" /\ pc = "awaiting" /\ Len(args) = 1
    /\ args[1].team_id = Str(Ref42)
    /\ args[1].hide_archived = Undefined
    /\ request.query.hide_archived = Undefined
    /\ request.query.team_id = Str(Id42)

\* Authorization values a request could carry before the pre-request hook.
PriorAuthorizations == {Undefined, <<"Basic", "other">>, <<"Bearer", "stale">>}

\* C11: every request an operation has put on the wire, in any sequence of
\* calls, carries Authorization 'Bearer <apiKey>' with apiKey the credential
\* given at construction; the hook sets that value whatever Authorization the
\* request carried before; and no step changes the credential.
C11_BearerOnEveryRequest ==
    /\ [](request.method # "none"
            => /\ request.headers.Authorization = <<"Bearer", apiKey>>
               /\ \A prior \in PriorAuthorizations :
                     onRequest([request EXCEPT !.headers.Authorization = prior],
                               apiKey).headers.Authorization = <<"Bearer", apiKey>>)
    /\ [][apiKey' = apiKey]_vars
C11_Witness ==
    /\ pc = "awaiting" /\ op = "showTimeEntry" /\ apiKey = "key2"
    /\ request.headers.Authorization = <<"Bearer", "key2">>

\* The operations C12 lists as returning the envelope's data field.
DataOperations ==
    {"listProjects", "listProjectsHierarchically", "showProject", "updateProject",
     "generateReport", "listTeams", "listTeamMembers", "startTimer", "stopTimer",
     "listTimeEntries", "createTimeEntry", "showTimeEntry", "updateTimeEntry"}
\* The response has a success status and a body the transport decodes.
Decoded == Answered /\ Ok(response) /\ response.body.kind \in {"json", "empty"}
\* The envelope the transport decoded from the response ({} for no content).
Envelope ==
    IF response.body.kind = "json" THEN response.body.value ELSE EmptyObject

\* C12 (as claimed): each of the listed operations returns, on success, the
\* data field of the decoded envelope and not the envelope itself (stated for
\* envelopes that have a data field).
C12_ListedOperationsReturnData ==
    (pc = "done" /\ op \in DataOperations /\ Decoded
        /\ Envelope.data.t # "undefined")
    => result = Return(Envelope.data)

\* C12 (amended): on success listTimeEntries returns the decoded envelope
\* itself; each other listed operation returns the envelope's data field,
\* listProjects and listProjectsHierarchically returning the empty list when
\* the envelope has no data field.
C12_ReturnShapes ==
    (pc = "done" /\ op \in DataOperations /\ Decoded)
    => IF op = "listTimeEntries" THEN result = Return(Envelope)
       ELSE IF op \in {"listProjects", "listProjectsHierarchically"}
               /\ Envelope.data.t = "undefined"
       THEN result = Return(Arr(<< >>))
       ELSE result = Return(Envelope.data)
C12_Witness ==
    /\ Settled("listTimeEntries") /\ Decoded
    /\ Envelope.data.t = "array"
    /\ result = Return(Envelope)

\* C13 (as claimed): when a response has a non-success status and a body
\* that does not parse as JSON, the caller observes a TimingError with the
\* status-dependent message, the response's status and body undefined.
C13_TimingErrorOnUnparsableBody ==
    (pc = "done" /\ Answered /\ ~Ok(response) /\ response.body.kind # "json")
    => /\ result.kind = "throw"
       /\ result.error.name = "TimingError"
       /\ result.error.status = response.status
       /\ result.error.message = IF response.status = 401
                                 THEN "Request not authorized."
                                 ELSE "Request unsuccessful."
       /\ result.error.body = Undefined

\* The argument names the created entry: its self reference, its bare ID as
\* a string, or its bare ID as a number.
NamesCreated(arg) ==
    \/ arg = created.self
    \/ arg.t = "string" /\ arg.s = IdOfReference(created.self.s)
    \/ arg.t = "number" /\ IsDecimalOf(IdOfReference(created.self.s), arg.n)

\* C14: against a backend that stores time entries, once createTimeEntry has
\* returned an entry with self /time-entries/<id> and while that entry is
\* stored as created, showTimeEntry called with that self reference or with
\* the bare <id> requests /api/v1/time-entries/<id> and returns a payload
\* whose self, title and project are those of the created entry.
C14_CreateThenShow ==
    (Settled("showTimeEntry") /\ created.t = "object" /\ created \in store
        /\ NamesCreated(args[1]))
    => /\ request.method = "GET"
       /\ request.path = "/api/v1/time-entries/{activity_id}"
       /\ request.pathParam = Str(IdOfReference(created.self.s))
       /\ result.kind = "return"
       /\ result.value.self = created.self
       /\ result.value.title = created.title
       /\ result.value.project = created.project
C14_Witness ==
    /\ Settled("showTimeEntry") /\ created.t = "object" /\ created \in store
    /\ args = <<Str(Ref42)>> /\ created.self = Str(Ref42)
    /\ created.project = ProjectRef
    /\ result.kind = "return" /\ result.value.self = Str(Ref42)

\* The arguments are of the operation's declared parameter types.
WellFormed(name, a) ==
    CASE name = "listProjects" ->
            \/ a = << >>
            \/ /\ a[1].t = "object"
               /\ a[1].team_id.t \in {"undefined", "string", "number"}
               /\ a[1].hide_archived \in {Undefined, Bool(TRUE)}
      [] name = "startTimer" -> Len(a) = 1 /\ a[1].t = "object"
      [] name = "showTimeEntry" -> Len(a) = 1 /\ a[1].t \in {"string", "number"}
      [] OTHER -> TRUE
Started(i) == calls[i].pc \in {"awaiting", "done"}

\* No invocation has sent more than one request.
AtMostOneRequest == \A i \in Invocations : calls[i].sent <= 1
\* A step of one invocation leaves every other invocation as it was, and an
\* invocation that awaits or has ended sends nothing further.
NoRetryNoSharing ==
    [][\A i \in Invocations :
          /\ calls'[i] # calls[i] => \A j \in Invocations \ {i} : calls'[j] = calls[j]
          /\ Started(i) => calls'[i].sent = calls[i].sent]_vars

\* C15: under any interleaving of concurrent invocations on one client, each
\* invocation sends at most one request, and exactly one when its arguments
\* are well formed.
C15_OneRequestPerInvocation ==
    \A i \in Invocations :
        Started(i)
        => /\ calls[i].sent <= 1
           /\ WellFormed(calls[i].op, calls[i].args) => calls[i].sent = 1

====
